---- MODULE Spec2Model ----
(***************************************************************************)
(* Model of pycord.internal.http.HTTPClient (src/pycord/internal/http/     *)
(* __init__.py): the rate-limit aware request dispatcher.                  *)
(*                                                                         *)
(* Every request() call is a coroutine of a single-threaded event loop:    *)
(* an action of the model is the code that runs between two suspension     *)
(* points (await of the network, of Block.wait, of Block.block).           *)
(*                                                                         *)
(* Route, Block and File are classes of the repository whose source is     *)
(* not at hand; they are modelled from their description (Data Model and   *)
(* Component Design sections).  The blocker registry is a Python dict and  *)
(* is modelled with the entry array, the used count and the value-iterator *)
(* checks of CPython (3.7 and later).                                      *)
(***************************************************************************)
EXTENDS Integers, Sequences, FiniteSets, TLC

\* ------------------------------------------------------------- bounds
NumReqs == 3
MaxRetriesCfg == 2
MaxFiles == 1
MaxAttach == 2

Reqs == 1..NumReqs
None == "None"

\* ------------------------------------------------------------- Route
\* Route: the four optional scoping identifiers, the resolved URL, and
\* whether every placeholder of the template has a value (merge succeeds).
MkRoute(g, c, w, t, u, ok) ==
    [guild_id |-> g, channel_id |-> c, webhook_id |-> w, webhook_token |-> t,
     path |-> u, mergeable |-> ok]

\* RouteMe has no identifier.  RouteA and RouteB resolve to one URL and share
\* no identifier; RouteB and RouteMe both lack a webhook_token; RouteMe and
\* RouteA have nothing in common.  RouteBad lacks the value of a placeholder.
RouteMe  == MkRoute(None, None, None, None, "/users/@me", TRUE)
RouteA   == MkRoute("1", "1", "1", "1", "/hook", TRUE)
RouteB   == MkRoute("2", "2", "2", None, "/hook", TRUE)
RouteBad == MkRoute(None, None, None, None, "/guilds/{guild_id}", FALSE)

RouteList == <<RouteMe, RouteA, RouteB, RouteBad>>
Routes == {RouteList[i] : i \in 1..Len(RouteList)}
RouteIndex(rt) == CHOOSE i \in 1..Len(RouteList) : RouteList[i] = rt

\* Route.merge(base): the resolved URL, or an error when a placeholder of
\* the template has no value.
merge(rt) == IF rt.mergeable THEN rt.path ELSE "KeyError"

\* ------------------------------------------------------------- inputs
\* The data argument: None, or a mapping, named by its keys.
Payloads == {None, "content"}
\* The request() calls the callers make: route, payload, number of files.
\* A plain call has neither payload nor files.
Plain(rt) == [route |-> rt, payload |-> None, nfiles |-> 0]
PlainCalls == {Plain(rt) : rt \in Routes \ {RouteBad}}
BodyCalls ==
    ([route : {RouteMe}, payload : Payloads, nfiles : 0..MaxFiles]
     \cup [route : {RouteBad}, payload : {"content"}, nfiles : 1..MaxFiles])
    \ PlainCalls
\* The calls of the NumReqs concurrent callers: plain calls to any routes,
\* or one call with a body among plain calls to RouteMe.
Configs ==
    {cs \in [Reqs -> PlainCalls \cup BodyCalls] :
        \/ \A q \in Reqs : cs[q] \in PlainCalls
        \/ /\ cs[1] \in BodyCalls
           /\ \A q \in Reqs \ {1} : cs[q] = Plain(RouteMe)}
\* Callers are interchangeable: plain calls are listed in the order of their routes.
Sorted(cs) ==
    \A q \in Reqs : (q + 1 \in Reqs /\ cs[q] \in PlainCalls) =>
        RouteIndex(cs[q].route) <= RouteIndex(cs[q + 1].route)
Buckets == {"b1", "b2"}
BodyKinds == {"json", "text", "empty"}

\* A response: status, body kind (content type), and the rate-limit headers
\* (bucket = None when X-RateLimit-Bucket is absent; reset = FALSE when
\* X-RateLimit-Reset-After or X-RateLimit-Scope is absent or malformed).
Responses ==
    [status : {200}, body : BodyKinds,
     bucket : {None}, reset : {TRUE}, global : {FALSE}]
    \cup
    [status : {500}, body : {"json", "text"},
     bucket : {None}, reset : {TRUE}, global : {FALSE}]
    \cup
    [status : {401, 403, 404}, body : {"json"},
     bucket : {None}, reset : {TRUE}, global : {FALSE}]
    \cup
    [status : {429}, body : {"json"},
     bucket : {None}, reset : {TRUE}, global : {FALSE}]
    \cup
    [status : {429}, body : {"json"},
     bucket : Buckets, reset : {TRUE}, global : BOOLEAN]
    \cup
    [status : {429}, body : {"json"},
     bucket : Buckets, reset : {FALSE}, global : {FALSE}]

VARIABLES
    max_retries,   \* HTTPClient.max_retries
    session,       \* number of ClientSession objects created (0: _session is None)
    blockers,      \* HTTPClient._blockers: the dict's entry array (insertion order)
    usable,        \* free slots of the dict's entry array
    req,           \* the request() calls: locals and position of each coroutine
    cdn,           \* a get_cdn_asset() call: its position, response and outcome
    enc            \* a _prepare_form() call: its arguments and the form it returns

vars == <<max_retries, session, blockers, usable, req, cdn, enc>>

\* ------------------------------------------------------------- the registry
\* self._blockers is a dict: an array of entries in insertion order, where
\* a deleted entry leaves a hole, and `usable` free slots at its end.
\* An entry is a key (the bucket id) and its value, a Block: the request
\* that created the Block (whose route is Block.route), is_global,
\* bucket_denom, and the number of block() calls made on it.  The gate of a
\* Block opens in the step that deletes its entry (Timer), which marks its
\* waiters as woken: the gate of a Block of the registry is closed.
Tomb == [bucket |-> None, owner |-> 0, is_global |-> FALSE, bucket_denom |-> None,
         block_calls |-> 0]
IsLive(e) == e.owner # 0
LiveEntries(reg) == SelectSeq(reg, IsLive)
\* len(dict): ma_used
Used(reg) == Len(LiveEntries(reg))
\* A table of 8 slots holds 5 entries, one of 16 slots holds 10; a resize
\* makes room for three times the live entries.
DictUsable(used) == IF 3 * used > 8 THEN 10 ELSE 5

\* self._blockers.get(bucket): the owner of the Block under that key, 0 for None
Get(reg, b) ==
    IF \E i \in DOMAIN reg : IsLive(reg[i]) /\ reg[i].bucket = b
    THEN (CHOOSE e \in {reg[i] : i \in DOMAIN reg} : IsLive(e) /\ e.bucket = b).owner
    ELSE 0

\* self._blockers[bucket] = block, for a key that is not in the dict: the
\* entry is appended; with no free slot left the array is rebuilt without
\* its holes first.  Result: <<entries, usable>>.
SetItem(reg, us, b, blk) ==
    LET e == [bucket |-> b, owner |-> blk.owner, is_global |-> blk.is_global,
              bucket_denom |-> blk.bucket_denom, block_calls |-> blk.block_calls]
    IN  IF us = 0
        THEN LET live == LiveEntries(reg)
             IN  <<Append(live, e), DictUsable(Len(live)) - Len(live) - 1>>
        ELSE <<Append(reg, e), us - 1>>

\* Variant: the entry stays in the dict.
DelItemKept(reg, b) == reg
\* del self._blockers[bucket]
DelItem(reg, b) == [i \in DOMAIN reg |-> IF reg[i].bucket = b THEN Tomb ELSE reg[i]]

\* iter(dict.values()): position in the entry array, the size the dict had
\* when the iterator was made (di_used) and the items still expected (len).
NoIter == [pos |-> 0, used |-> 0, len |-> 0]
NewIter(reg) == [pos |-> 0, used |-> Used(reg), len |-> Used(reg)]

\* Index of the first live entry after position p, 0 when there is none.
NextLive(reg, p) ==
    IF \E i \in DOMAIN reg : i > p /\ IsLive(reg[i])
    THEN CHOOSE i \in DOMAIN reg :
            /\ i > p /\ IsLive(reg[i])
            /\ \A j \in DOMAIN reg : (j > p /\ IsLive(reg[j])) => i <= j
    ELSE 0

\* ------------------------------------------------------------- Block
\* Block(route), made by request q: a gate that is closed until block() has
\* slept reset_after seconds; wait() suspends the caller until the gate opens.
NewBlock(q) == [owner |-> q, is_global |-> FALSE, bucket_denom |-> None,
                block_calls |-> 0]
\* Block.block(reset_after, bucket, globalrt), up to its sleep.
DoBlock(blk, bucket, globalrt) ==
    [blk EXCEPT !.is_global = globalrt, !.bucket_denom = bucket, !.block_calls = @ + 1]

\* ------------------------------------------------------------- File
NewFile == [closed |-> 0, consumed |-> FALSE]
\* File.reset(retry): rewind the content source
reset(f) == [f EXCEPT !.consumed = FALSE]
\* File.close()
close(f) == [f EXCEPT !.closed = @ + 1]

\* ------------------------------------------------------------- request()
Returns == {"json", "text", None}
Errors == {"Unauthorized", "Forbidden", "NotFound", "HTTPException",
           "KeyError", "TypeError", "AttributeError", "ContentTypeError",
           "RuntimeError"}
\* The local r keeps the status and the body of the last response; bucket
\* is the key of the Block the call sleeps in or waits on.
NoResp == [status |-> 0, body |-> "empty"]
Seen(r) == [status |-> r.status, body |-> r.body]

\* The locals of a request() call that has not started yet.
NewReq(c) ==
    [pc |-> "idle", route |-> c.route, payload |-> c.payload, data |-> c.payload,
     files |-> [i \in 1..c.nfiles |-> NewFile],
     retry |-> 0, it |-> NoIter, on |-> 0, brk |-> FALSE, branch |-> 0,
     woken |-> FALSE,
     calls |-> 0, r |-> NoResp, bucket |-> None, result |-> "pending"]

\* Lines 78-83: the first test of the pre-flight loop.  Python's == holds
\* of two identifiers that are both None.
IdMatch(broute, route) ==
    \/ broute.channel_id = route.channel_id
    \/ broute.guild_id = route.guild_id
    \/ broute.webhook_id = route.webhook_id
    \/ broute.webhook_token = route.webhook_token

\* Line 86: blocker.route.path == endpoint
PathMatch(broute, route) == broute.path = merge(route)

\* Lines 77-93: for blocker in self._blockers.values(), from iterator `it`
\* on, up to the first suspension.  branch is the arm of the if statement
\* the call waits in (1: lines 78-85, 2: lines 86-89, 3: lines 90-93); brk
\* tells that a break follows the wait.  next() raises RuntimeError when the
\* dict's size differs from the iterator's, and when it finds an entry
\* after it has yielded as many as the dict had.
ScanEnd(kind) ==
    [kind |-> kind, it |-> NoIter, on |-> 0, bucket |-> None, brk |-> FALSE,
     branch |-> 0]
RECURSIVE Scan(_, _, _)
Scan(reg, it, route) ==
    IF it.used # Used(reg)
    THEN ScanEnd("error")
    ELSE LET i == NextLive(reg, it.pos)
         IN  IF i = 0
             THEN ScanEnd("send")
             ELSE IF it.len = 0
             THEN ScanEnd("error")
             ELSE LET blocker == reg[i]
                      broute == req[blocker.owner].route
                      nit == [pos |-> i, used |-> it.used, len |-> it.len - 1]
                  IN  IF IdMatch(broute, route)
                      THEN [kind |-> "wait", it |-> nit, on |-> blocker.owner,
                            bucket |-> blocker.bucket, brk |-> FALSE, branch |-> 1]
                      ELSE IF PathMatch(broute, route) \/ blocker.is_global
                      THEN [kind |-> "wait", it |-> NoIter, on |-> blocker.owner,
                            bucket |-> blocker.bucket, brk |-> TRUE,
                            branch |-> IF PathMatch(broute, route) THEN 2 ELSE 3]
                      ELSE Scan(reg, nit, route)

\* Lines 144-147: the finally clause, then the call exits with `res`.
Finally(q, res) ==
    [q EXCEPT !.pc = "done", !.result = res,
              !.bucket = None,
              !.files = [i \in DOMAIN q.files |-> close(q.files[i])],
              !.it = NoIter, !.on = 0, !.brk = FALSE, !.branch = 0,
              !.woken = FALSE]

\* Lines 95-101: the HTTP call is issued; the coroutine awaits the response.
Send(q) ==
    [q EXCEPT !.pc = "http", !.calls = @ + 1, !.bucket = None,
              !.files = [i \in DOMAIN q.files |-> [q.files[i] EXCEPT !.consumed = TRUE]],
              !.it = NoIter, !.on = 0, !.brk = FALSE, !.branch = 0,
              !.woken = FALSE]

\* Variant: no break after a wait.
ProceedNoBreak(q, sc) ==
    CASE sc.kind = "error" -> Finally(q, "RuntimeError")
      [] sc.kind = "send"  -> Send(q)
      [] sc.kind = "wait"  ->
            [q EXCEPT !.pc = "wait_pre", !.it = sc.it, !.on = sc.on,
                      !.bucket = sc.bucket, !.brk = FALSE, !.branch = sc.branch,
                      !.woken = FALSE]
\* The pre-flight loop from the outcome of Scan on.
Proceed(q, sc) ==
    CASE sc.kind = "error" -> Finally(q, "RuntimeError")
      [] sc.kind = "send"  -> Send(q)
      [] sc.kind = "wait"  ->
            [q EXCEPT !.pc = "wait_pre", !.it = sc.it, !.on = sc.on,
                      !.bucket = sc.bucket, !.brk = sc.brk, !.branch = sc.branch,
                      !.woken = FALSE]

\* Variant: one more turn of the loop.
RangeOverLate(n) == n > max_retries
\* Line 72: for retry in range(self.max_retries) is over at retry = n.
RangeOver(n) == n >= max_retries

\* Lines 72-93: the head of the retry loop for retry = n, with the
\* registry as it is then: the loop is over (the call returns None through
\* the finally clause), or the files are rewound and the pre-flight loop runs.
Loop(q, n, reg) ==
    IF RangeOver(n)
    THEN Finally([q EXCEPT !.retry = n], None)
    ELSE Proceed([q EXCEPT !.retry = n, !.r = NoResp, !.bucket = None,
                           !.files = [i \in DOMAIN q.files |-> reset(q.files[i])]],
                 Scan(reg, NewIter(reg), q.route))

\* Lines 149-176: _prepare_form(files, payload): payload["attachments"] = ...
\* fails on a payload that is None.
PrepareFormFails(payload) == payload = None
\* Line 170: payload["attachments"] = attachments, on the mapping the caller
\* passed as data (line 68): the mapping has one more key.
WithAttachments(payload) ==
    IF payload = "content" THEN "content+attachments" ELSE payload

\* Lines 56-69: the code of request() before the try statement.  An error
\* raised here leaves the call without passing the finally clause.
Prologue(q) ==
    IF merge(q.route) = "KeyError"
    THEN [q EXCEPT !.pc = "done", !.result = "KeyError"]
    ELSE IF Len(q.files) > 0
    THEN IF PrepareFormFails(q.payload)
         THEN [q EXCEPT !.pc = "done", !.result = "TypeError"]
         ELSE [q EXCEPT !.pc = "try", !.data = "form",
                        !.payload = WithAttachments(q.payload)]
    ELSE IF q.payload = "content"
    THEN [q EXCEPT !.pc = "try", !.data = "json"]
    ELSE [q EXCEPT !.pc = "try"]

\* utils._text_or_json(r): JSON when the content type says so, the raw text
\* otherwise; None for an empty body.
text_or_json(r) ==
    CASE r.body = "json"  -> "json"
      [] r.body = "text"  -> "text"
      [] r.body = "empty" -> None

\* Variant: a 429 counts when it names a bucket.
RateLimitedWithBucket(r) == r.status = 429 /\ r.bucket # None
\* Line 104: if r.status == 429
RateLimited(r) == r.status = 429
\* Variant: the error branch taken from status 200.
IsErrorFrom200(r) == r.status >= 200
\* Line 129: if r.status >= 400
IsError(r) == r.status >= 400

\* Variant: every mapped status raises NotFound.
ErrorOfAllNotFound(q, r) ==
    IF r.status \in {401, 403, 404} THEN "NotFound" ELSE "HTTPException"
\* Lines 129-139: the error raised for a status >= 400 other than 429.  The
\* generic branch first evaluates r.json() (an error unless the content type
\* is JSON) and data._fields (an attribute FormData alone has).
ErrorOf(q, r) ==
    CASE r.status = 401 -> "Unauthorized"
      [] r.status = 403 -> "Forbidden"
      [] r.status = 404 -> "NotFound"
      [] OTHER -> IF r.body # "json" THEN "ContentTypeError"
                  ELSE IF q.data # "form" THEN "AttributeError"
                  ELSE "HTTPException"

\* ------------------------------------------------------------- get_cdn_asset()
\* Lines 232-242.  The statuses a CDN answers with.
CdnStatuses == {200, 401, 403, 404, 500}
NewCdn == [pc |-> "idle", calls |-> 0, status |-> 0, result |-> "pending"]

\* Variant: 403 falls in the default case.
CdnResultNo403(status) ==
    CASE status = 200 -> "bytes"
      [] status = 404 -> "NotFound"
      [] OTHER -> "HTTPException"
\* Lines 234-242: match response.status
CdnResult(status) ==
    CASE status = 200 -> "bytes"
      [] status = 403 -> "Forbidden"
      [] status = 404 -> "NotFound"
      [] OTHER -> "HTTPException"

\* Line 233: self._session.get(url); without a session (create() has not
\* run) the attribute access on None fails.
CdnBegin ==
    /\ cdn.pc = "idle"
    /\ cdn' = IF session = 0
              THEN [cdn EXCEPT !.pc = "done", !.result = "AttributeError"]
              ELSE [cdn EXCEPT !.pc = "http", !.calls = @ + 1]
    /\ UNCHANGED <<max_retries, session, blockers, usable, req, enc>>

\* Lines 233-242: the response arrives.
CdnResponse(status) ==
    /\ cdn.pc = "http"
    /\ cdn' = [cdn EXCEPT !.pc = "done", !.status = status,
                          !.result = CdnResult(status)]
    /\ UNCHANGED <<max_retries, session, blockers, usable, req, enc>>

\* ------------------------------------------------------------- _prepare_form()
\* A File: filename, description (None when absent) and fp, its content.
Attach == [filename : {"a.png", "b.png"}, description : {None, "d"}, fp : {"x", "y"}]
FileLists == UNION {[1..n -> Attach] : n \in 0..MaxAttach}

\* A dict is the sequence of its items in insertion order.  An item has a
\* key and a value, which is a string or an array.
StrItem(k, v) == [key |-> k, kind |-> "str", str |-> v, arr |-> <<>>]
ArrItem(k, a) == [key |-> k, kind |-> "arr", str |-> "", arr |-> a]
HasKey(d, k) == \E i \in DOMAIN d : d[i].key = k
\* d[k] = item's value: in place for a key of d, at the end otherwise.
SetKey(d, item) ==
    IF HasKey(d, item.key)
    THEN [i \in DOMAIN d |-> IF d[i].key = item.key THEN item ELSE d[i]]
    ELSE Append(d, item)

\* The payload mappings the encoder is called with.
PayloadMaps ==
    {<<>>,
     <<StrItem("content", "hi")>>,
     <<StrItem("content", "hi"), StrItem("tts", "true")>>,
     <<ArrItem("attachments", <<>>), StrItem("content", "hi")>>}

\* utils.dumps(d): the JSON text of d, its members in the order of the dict;
\* loads: the object a JSON text denotes, whose members have no order.
dumps(d) == [json |-> [i \in DOMAIN d |-> <<d[i].key, d[i].kind, d[i].str, d[i].arr>>]]
loads(t) ==
    {[key |-> t.json[i][1], kind |-> t.json[i][2], str |-> t.json[i][3],
      arr |-> t.json[i][4]] : i \in DOMAIN t.json}

\* Lines 154-160: attachments.append({"id": index, ...}) for every file
Attachments(files) ==
    [i \in DOMAIN files |-> [id |-> i - 1, filename |-> files[i].filename,
                             description |-> files[i].description]]
\* Lines 161-168: form.append({"name": f"files[{index}]", ...}) for every file
FileFields(files) ==
    [i \in DOMAIN files |-> [name |-> <<"files", i - 1>>, value |-> files[i].fp,
                             filename |-> files[i].filename,
                             content_type |-> "application/octet-stream"]]
\* Variant: the field is added after the others.
InsertLast(form, f) == Append(form, f)
\* Line 171: form.insert(0, f)
InsertFirst(form, f) == <<f>> \o form

\* FormData.add_field, for every element of form in turn (lines 172-174).
RECURSIVE AddFields(_, _)
AddFields(form_data, form) ==
    IF form = <<>> THEN form_data
    ELSE AddFields(Append(form_data, Head(form)), Tail(form))

\* No _prepare_form() call.
NoEnc == [pc |-> "idle", files |-> <<>>, has_payload |-> FALSE, payload0 |-> <<>>,
          payload |-> <<>>, form |-> <<>>, error |-> None]
\* A call _prepare_form(files, payload) that has not run; payload0 keeps
\* the mapping as the caller made it.
NewEnc(files, has, payload) ==
    [pc |-> "idle", files |-> files, has_payload |-> has, payload0 |-> payload,
     payload |-> payload, form |-> <<>>, error |-> None]

\* Lines 149-176: _prepare_form(files, payload).
PrepareForm ==
    /\ enc.pc = "idle"
    /\ enc' =
         IF ~enc.has_payload
         THEN [enc EXCEPT !.pc = "done", !.error = "TypeError"]
         ELSE LET payload == SetKey(enc.payload,
                                    ArrItem("attachments", Attachments(enc.files)))
                  form == InsertFirst(FileFields(enc.files),
                                      [name |-> <<"payload_json">>,
                                       value |-> dumps(payload),
                                       filename |-> None, content_type |-> None])
              IN  [enc EXCEPT !.pc = "done", !.payload = payload,
                              !.form = AddFields(<<>>, form)]
    /\ UNCHANGED <<max_retries, session, blockers, usable, req, cdn>>

\* ------------------------------------------------------------- actions
Init ==
    /\ max_retries \in 0..MaxRetriesCfg
    /\ session = 0
    /\ blockers = <<>>
    /\ usable = 0
    /\ \E cs \in Configs :
          /\ Sorted(cs)
          /\ req = [q \in Reqs |-> NewReq(cs[q])]
    /\ cdn = NewCdn
    /\ enc = NoEnc

\* Variant: the session is made whatever self._session holds.
NoSessionAlways(s) == TRUE
\* Line 58: if not self._session
NoSession(s) == s = 0
\* Lines 42-44: create() binds self._session to a new ClientSession; it has
\* no suspension point, so `await self.create()` runs within the step.
create(s) == s + 1

\* request() is called and runs to its first suspension.
Begin(q) ==
    /\ req[q].pc = "idle"
    /\ LET p == Prologue(req[q])
       IN  /\ session' = IF merge(req[q].route) # "KeyError" /\ NoSession(session)
                         THEN create(session) ELSE session
           /\ req' = [req EXCEPT ![q] = IF p.pc = "done" THEN p
                                         ELSE Loop(p, 0, blockers)]
    /\ UNCHANGED <<max_retries, blockers, usable, cdn, enc>>

\* The Block the call waits on in the pre-flight loop was released.
Resume(q) ==
    /\ req[q].pc = "wait_pre"
    /\ req[q].woken
    /\ req' = [req EXCEPT ![q] =
                 IF req[q].brk THEN Send(req[q])
                 ELSE Proceed(req[q], Scan(blockers, req[q].it, req[q].route))]
    /\ UNCHANGED <<max_retries, session, blockers, usable, cdn, enc>>

\* Lines 111-113: the Block found under the bucket of a 429 was released.
Resume429(q) ==
    /\ req[q].pc = "wait_429"
    /\ req[q].woken
    /\ req' = [req EXCEPT ![q] = Loop(req[q], req[q].retry + 1, blockers)]
    /\ UNCHANGED <<max_retries, session, blockers, usable, cdn, enc>>

\* Block.wait(): the calls suspended on the Block that request q created.
Waiters(q) == {w \in Reqs : req[w].pc \in {"wait_pre", "wait_429"} /\ req[w].on = q}

\* Lines 119-126: reset_after has elapsed: block() opens the gate, which
\* wakes every waiter, and returns; the entry is deleted and the loop goes on.
Timer(q) ==
    /\ req[q].pc = "blocking"
    /\ LET reg == DelItem(blockers, req[q].bucket)
       IN  /\ blockers' = reg
           /\ req' = [w \in Reqs |->
                        IF w = q THEN Loop(req[q], req[q].retry + 1, reg)
                        ELSE IF w \in Waiters(q)
                        THEN [req[w] EXCEPT !.woken = TRUE]
                        ELSE req[w]]
    /\ UNCHANGED <<max_retries, session, usable, cdn, enc>>

\* Lines 103-143: the response r of the HTTP call arrives.
Response(q, r) ==
    /\ req[q].pc = "http"
    /\ LET me == [req[q] EXCEPT !.r = Seen(r)]
           o == Get(blockers, r.bucket)
           ins == SetItem(blockers, usable, r.bucket,
                          IF r.reset THEN DoBlock(NewBlock(q), r.bucket, r.global)
                          ELSE NewBlock(q))
       IN  IF RateLimited(r) /\ r.bucket # None /\ o = 0
           THEN /\ blockers' = ins[1]
                /\ usable' = ins[2]
                /\ req' = [req EXCEPT ![q] =
                     IF r.reset THEN [me EXCEPT !.pc = "blocking", !.bucket = r.bucket]
                     ELSE Finally(me, "KeyError")]
           ELSE /\ UNCHANGED <<blockers, usable>>
                /\ req' = [req EXCEPT ![q] =
                     IF RateLimited(r)
                     THEN IF r.bucket = None THEN Loop(me, me.retry + 1, blockers)
                          ELSE [me EXCEPT !.pc = "wait_429", !.on = o,
                                          !.bucket = r.bucket, !.woken = FALSE]
                     ELSE IF IsError(r) THEN Finally(me, ErrorOf(me, r))
                     ELSE Finally(me, text_or_json(r))]
    /\ UNCHANGED <<max_retries, session, cdn, enc>>

Next ==
    \E q \in Reqs :
        \/ Begin(q)
        \/ Resume(q)
        \/ Resume429(q)
        \/ Timer(q)
        \/ \E r \in Responses : Response(q, r)

Spec == Init /\ [][Next]_vars

\* Fair scheduling: the event loop runs every coroutine that can resume,
\* every HTTP call is answered and every reset_after timer expires.
Fairness ==
    \A q \in Reqs :
        /\ WF_vars(Resume(q))
        /\ WF_vars(Resume429(q))
        /\ WF_vars(Timer(q))
        /\ WF_vars(\E r \in Responses : Response(q, r))

\* Three plain calls to RouteMe with max_retries = 1, under fair scheduling.
InitFair ==
    /\ Init
    /\ max_retries = 1
    /\ \A q \in Reqs : req[q] = NewReq(Plain(RouteMe))
FairSpec == InitFair /\ [][Next]_vars /\ Fairness

\* Three plain calls to RouteMe with max_retries = 1 and a get_cdn_asset()
\* call beside them.
NextCdn ==
    \/ Next
    \/ CdnBegin
    \/ \E status \in CdnStatuses : CdnResponse(status)
CdnSpec == InitFair /\ [][NextCdn]_vars

\* The form encoder alone, on every list of files and payload.
InitEnc ==
    /\ max_retries = 0
    /\ session = 0
    /\ blockers = <<>>
    /\ usable = 0
    /\ req = [q \in Reqs |-> NewReq(Plain(RouteMe))]
    /\ cdn = NewCdn
    /\ \E files \in FileLists :
          \/ enc = NewEnc(files, FALSE, <<>>)
          \/ \E payload \in PayloadMaps : enc = NewEnc(files, TRUE, payload)
EncSpec == InitEnc /\ [][PrepareForm]_vars

\* ------------------------------------------------------------- properties
\* The Blocks of the registry.
ActiveBlockers == {blockers[i] : i \in {j \in DOMAIN blockers : IsLive(blockers[j])}}

\* Two routes share a scoping identifier (one that is not None).
SharesId(a, b) ==
    \/ a.guild_id # None /\ a.guild_id = b.guild_id
    \/ a.channel_id # None /\ a.channel_id = b.channel_id
    \/ a.webhook_id # None /\ a.webhook_id = b.webhook_id
    \/ a.webhook_token # None /\ a.webhook_token = b.webhook_token

\* Request q issues an HTTP call in this step.
Issues(q) == req'[q].pc = "http" /\ req'[q].calls = req[q].calls + 1

\* C1: whenever a request issues its HTTP call, the registry holds no Block
\* whose route shares a guild_id, channel_id, webhook_id or webhook_token
\* with the route of the request.
C1_NoOverlapAtSend ==
    [][\A q \in Reqs : Issues(q) =>
          \A b \in ActiveBlockers' : ~SharesId(req[b.owner].route, req[q].route)]_vars

\* C2: whenever a request issues its HTTP call, the registry holds no Block
\* with is_global = TRUE.
C2_NoGlobalAtSend ==
    [][\A q \in Reqs : Issues(q) => \A b \in ActiveBlockers' : ~b.is_global]_vars

\* C3: when a request() call given files has exited, close() was called
\* exactly once on each of its files.
C3_FilesClosedOnce ==
    \A q \in Reqs : req[q].pc = "done" =>
        \A i \in DOMAIN req[q].files : req[q].files[i].closed = 1

\* Request q leaves block(): the Block it created is released.
Releases(q) == req[q].pc = "blocking" /\ req'[q].pc # "blocking"
\* Request w resumes from Block.wait().
Resumes(w) ==
    req[w].pc \in {"wait_pre", "wait_429"} /\ req[w].woken /\ req'[w] # req[w]

\* C4 as stated: one release wakes all the waiters of a Block (those of the
\* pre-flight loop and those of a 429), and when a waiter resumes the
\* registry does not hold the bucket id of that Block.
C4_Original ==
    [][\A q \in Reqs :
          /\ Releases(q) => \A w \in Waiters(q) : req'[w].woken
          /\ Resumes(q) => Get(blockers, req[q].bucket) = 0]_vars

\* C4 amended: one release wakes all the waiters of a Block, and the step
\* that releases it removes its bucket id from the registry.
C4_ReleaseWakesAll ==
    [][\A q \in Reqs :
          Releases(q) => /\ \A w \in Waiters(q) : req'[w].woken
                         /\ Get(blockers', req[q].bucket) = 0]_vars

\* A release has woken a pre-flight waiter and a 429 waiter of one Block.
C4_Witness ==
    \E w1, w2 \in Reqs :
        /\ req[w1].pc = "wait_pre" /\ req[w1].woken
        /\ req[w2].pc = "wait_429" /\ req[w2].woken
        /\ req[w1].on = req[w2].on
        /\ Get(blockers, req[w1].bucket) = 0

\* C5: a response with status 401, 403 or 404 makes request() raise
\* Unauthorized, Forbidden or NotFound in that step with the registry
\* unchanged, and a call that has exited issues no HTTP call.
C5_TypedErrors ==
    [][\A q \in Reqs :
          /\ (req[q].pc = "http" /\ req'[q].r.status \in {401, 403, 404}) =>
                /\ req'[q].pc = "done"
                /\ req'[q].result = (CASE req'[q].r.status = 401 -> "Unauthorized"
                                       [] req'[q].r.status = 403 -> "Forbidden"
                                       [] req'[q].r.status = 404 -> "NotFound")
                /\ req'[q].calls = req[q].calls
                /\ blockers' = blockers
          /\ req[q].pc = "done" => req'[q].calls = req[q].calls]_vars

\* A call raised Unauthorized on its second attempt.
C5_Witness ==
    \E q \in Reqs : /\ req[q].pc = "done" /\ req[q].result = "Unauthorized"
                    /\ req[q].r.status = 401 /\ req[q].calls = 2

\* C6: a response with a status >= 400 other than 401, 403, 404 and 429
\* makes request() raise HTTPException.
C6_GenericError ==
    \A q \in Reqs :
        (req[q].pc = "done" /\ req[q].r.status >= 400
         /\ req[q].r.status \notin {401, 403, 404, 429}) =>
            req[q].result = "HTTPException"

\* C7: a call whose last response has a status below 400 returns the parsed
\* body of that response (JSON, raw text, None for an empty body), whatever
\* the number of 429 responses before it.
C7_ReturnsBody ==
    \A q \in Reqs :
        (req[q].pc = "done" /\ req[q].r.status > 0 /\ req[q].r.status < 400) =>
            req[q].result = (CASE req[q].r.body = "json"  -> "json"
                               [] req[q].r.body = "text"  -> "text"
                               [] req[q].r.body = "empty" -> None)

\* A call returned the JSON body of its second response, after one 429.
C7_Witness ==
    \E q \in Reqs : /\ req[q].pc = "done" /\ req[q].r.status = 200
                    /\ req[q].retry = 1 /\ req[q].calls = 2
                    /\ req[q].result = "json"

\* C8: no two Blocks of the registry have one bucket id; block() was called
\* exactly once on every Block of the registry; a call that waits on the
\* Block found under the bucket of its 429 leaves the registry unchanged;
\* an entry is removed only by the request that created it, when it leaves
\* block().
C8_OneBlockerPerBucket ==
    [][/\ \A i, j \in DOMAIN blockers' :
            (i # j /\ IsLive(blockers'[i]) /\ IsLive(blockers'[j])) =>
                blockers'[i].bucket # blockers'[j].bucket
       /\ \A b \in ActiveBlockers' : b.block_calls = 1
       /\ \A q \in Reqs :
            (req[q].pc = "http" /\ req'[q].pc = "wait_429") => blockers' = blockers
       /\ \A b \in ActiveBlockers :
            b \notin ActiveBlockers' => Releases(b.owner)]_vars

\* C9: every request() call that has started eventually exits.
C9_Terminates ==
    \A q \in Reqs : (req[q].pc # "idle") ~> (req[q].pc = "done")

\* C10: a call issues at most max_retries HTTP calls; an HTTP call is the
\* only one of its attempt; retry advances by one, at the end of an attempt
\* that issued an HTTP call, and a pre-flight wait leaves it unchanged.
C10_AtMostMaxRetries ==
    [][\A q \in Reqs :
          /\ req'[q].calls <= max_retries
          /\ Issues(q) => req'[q].calls = req'[q].retry + 1
          /\ req'[q].retry # req[q].retry =>
                /\ req'[q].retry = req[q].retry + 1
                /\ req[q].pc \in {"http", "wait_429", "blocking"}
                /\ req[q].calls = req[q].retry + 1
          /\ (req[q].pc = "wait_pre" /\ req'[q].pc = "http") =>
                /\ req'[q].retry = req[q].retry
                /\ req'[q].calls = req[q].calls + 1]_vars

\* A call has used all its max_retries = 2 attempts, the second one after a
\* pre-flight wait.
C10_Witness ==
    \E q \in Reqs : /\ max_retries = 2 /\ req[q].pc = "http" /\ req[q].calls = 2
                    /\ \E w \in Reqs : req[w].pc = "wait_pre" /\ req[w].retry = 1

\* Request q suspends on a Block in the pre-flight loop in this step.
Suspends(q) ==
    req'[q].pc = "wait_pre" /\ ~req'[q].woken /\ req'[q] # req[q]

\* C11: a request suspends in the pre-flight loop only on a Block that is
\* global, or whose route shares an identifier that is not None with the
\* route of the request, or resolves to the URL of the request.
C11_IndependentRoutes ==
    [][\A q \in Reqs : Suspends(q) =>
          \A e \in ActiveBlockers' :
              e.bucket = req'[q].bucket =>
                  \/ e.is_global
                  \/ SharesId(req[e.owner].route, req[q].route)
                  \/ req[e.owner].route.path = req[q].route.path]_vars

\* C14: a request that resumes from a wait of the pre-flight loop does not
\* fail: it goes on with the scan (waits again) or issues its HTTP call, and
\* then the registry holds no Block that overlaps its route.
C14_ResumesNormally ==
    [][\A q \in Reqs :
          (Resumes(q) /\ req[q].pc = "wait_pre") =>
              /\ req'[q].pc \in {"wait_pre", "http"}
              /\ req'[q].pc = "http" =>
                    \A b \in ActiveBlockers' :
                        ~SharesId(req[b.owner].route, req[q].route)]_vars

\* C15: the registry holds no Block whose creating request has exited.
C15_NoBlockerOfExited ==
    \A b \in ActiveBlockers : req[b.owner].pc # "done"

\* The 429 response that has no X-RateLimit-Bucket header.
NoBucket429 ==
    [status |-> 429, body |-> "json", bucket |-> None, reset |-> TRUE, global |-> FALSE]

\* C16: a 429 response without X-RateLimit-Bucket leaves the registry as it
\* is, raises nothing and takes the call to its next attempt: the call
\* issues the next HTTP call, waits in the pre-flight loop on a Block of the
\* registry, or is out of attempts and returns None; it does not sleep.
C16_NoBucketRetries ==
    [][\A q \in Reqs :
          (req[q].pc = "http" /\ req'[q] # req[q] /\ Response(q, NoBucket429)) =>
              /\ blockers' = blockers /\ usable' = usable
              /\ req'[q].retry = req[q].retry + 1
              /\ req'[q].result \notin Errors
              /\ req'[q].pc \in {"http", "wait_pre", "done"}
              /\ req'[q].pc = "wait_pre" => Get(blockers, req'[q].bucket) # 0
              /\ req'[q].pc = "done" =>
                    req'[q].result = None /\ req'[q].retry = max_retries]_vars

\* A call is in its second attempt and the registry was never written:
\* its first response was a 429 without a bucket.
C16_Witness ==
    \E q \in Reqs : /\ req[q].pc = "http" /\ req[q].retry = 1 /\ req[q].calls = 2
                    /\ blockers = <<>>

\* C17: a call that exits after a 429 as its last response returns None
\* and leaves no Block of its own in the registry; a call with
\* max_retries = 0 returns None without an HTTP call.
C17_ExhaustedReturnsNone ==
    \A q \in Reqs :
        /\ (req[q].pc = "done" /\ req[q].r.status = 429) =>
              /\ req[q].result = None
              /\ \A b \in ActiveBlockers : b.owner # q
        /\ (req[q].pc = "done" /\ max_retries = 0 /\ req[q].result \notin Errors) =>
              req[q].result = None /\ req[q].calls = 0

\* C19: a call with files and no payload does not fail in the form encoder:
\* its body is a form.
C19_FilesWithoutPayload ==
    \A q \in Reqs :
        (req[q].pc # "idle" /\ Len(req[q].files) > 0 /\ req[q].payload = None) =>
            req[q].data = "form" /\ req[q].result # "TypeError"

\* The object the payload_json field of a form denotes.
PayloadJson(form) == loads(form[1].value)

\* C12: for a list of N >= 1 files and a payload mapping, the form has N + 1
\* fields: the first is payload_json, whose JSON is the payload with the
\* attachments array [{id: i, filename, description}], and field i + 1 is
\* files[i] with the content and the filename of file i and the content
\* type application/octet-stream.
C12_FormFields ==
    (enc.pc = "done" /\ enc.has_payload /\ Len(enc.files) >= 1) =>
        /\ enc.error = None
        /\ Len(enc.form) = Len(enc.files) + 1
        /\ enc.form[1].name = <<"payload_json">>
        /\ PayloadJson(enc.form) =
              {enc.payload0[i] : i \in {j \in DOMAIN enc.payload0 :
                                           enc.payload0[j].key # "attachments"}}
              \cup {ArrItem("attachments",
                            [i \in DOMAIN enc.files |->
                                [id |-> i - 1, filename |-> enc.files[i].filename,
                                 description |-> enc.files[i].description]])}
        /\ \A i \in DOMAIN enc.files :
              /\ enc.form[i + 1].name = <<"files", i - 1>>
              /\ enc.form[i + 1].value = enc.files[i].fp
              /\ enc.form[i + 1].filename = enc.files[i].filename
              /\ enc.form[i + 1].content_type = "application/octet-stream"

\* The form of two files that differ in filename, description and content,
\* for a payload that has a content key.
C12_Witness ==
    /\ enc.pc = "done" /\ Len(enc.files) = 2 /\ Len(enc.form) = 3
    /\ enc.files[1].filename # enc.files[2].filename
    /\ enc.files[1].fp # enc.files[2].fp
    /\ enc.files[1].description # enc.files[2].description
    /\ HasKey(enc.payload0, "content")

\* C13: a get_cdn_asset() step leaves the registry and the request() calls
\* as they are; with a session the call issues its GET whatever the
\* registry holds; the response ends the call after that one HTTP call:
\* 200 returns the body, 403 raises Forbidden, 404 NotFound and any other
\* status HTTPException.
C13_CdnPassThrough ==
    [][cdn' # cdn =>
          /\ UNCHANGED <<blockers, usable, req, max_retries, session>>
          /\ (cdn.pc = "idle" /\ session # 0) => (cdn'.pc = "http" /\ cdn'.calls = 1)
          /\ cdn.pc = "http" =>
                /\ cdn'.pc = "done" /\ cdn'.calls = 1
                /\ cdn'.result = (CASE cdn'.status = 200 -> "bytes"
                                    [] cdn'.status = 403 -> "Forbidden"
                                    [] cdn'.status = 404 -> "NotFound"
                                    [] OTHER -> "HTTPException")]_vars

\* The GET of get_cdn_asset() is in flight while a global Block is in the
\* registry.
C13_Witness ==
    cdn.pc = "http" /\ \E b \in ActiveBlockers : b.is_global /\ b.block_calls = 1

\* C20: the payload mapping of a call is as the caller made it.
C20_PayloadUnchanged ==
    \A q \in Reqs : req[q].payload \in Payloads

\* C18 as stated: a request that waited on a Block for an identifier match
\* or because the Block is global issues no HTTP call when it resumes; one
\* that waited for a URL match goes on.
C18_Original ==
    [][\A q \in Reqs :
          (Resumes(q) /\ req[q].pc = "wait_pre") =>
              /\ req[q].branch \in {1, 3} => ~Issues(q)
              /\ req[q].branch = 2 => Issues(q)]_vars

\* C18 amended: a request suspends in the pre-flight loop on a Block whose
\* route has an identifier equal to its own (arm 1), that resolves to its
\* URL (arm 2) or that is global (arm 3).  When it resumes it is in the same
\* attempt: after arm 1 it goes on with the scan, which ends in a further
\* wait, in the HTTP call or in a RuntimeError; after arm 2 or 3 it leaves
\* the scan and issues its HTTP call.
C18_WaitThenSameAttempt ==
    [][\A q \in Reqs :
          /\ Suspends(q) =>
                \A e \in ActiveBlockers' :
                    e.bucket = req'[q].bucket =>
                        /\ req'[q].branch = 1 => IdMatch(req[e.owner].route, req[q].route)
                        /\ req'[q].branch = 2 =>
                              req[e.owner].route.path = req[q].route.path
                        /\ req'[q].branch = 3 => e.is_global
          /\ (Resumes(q) /\ req[q].pc = "wait_pre") =>
                /\ req'[q].retry = req[q].retry
                /\ req[q].branch \in {2, 3} => Issues(q)
                /\ req[q].branch = 1 =>
                      \/ req'[q].pc = "wait_pre"
                      \/ Issues(q)
                      \/ req'[q].pc = "done" /\ req'[q].result = "RuntimeError"]_vars

\* A request that waited on a global Block, and one that waited for an
\* identifier match, are about to resume.
C18_Witness ==
    \E q, w \in Reqs :
        /\ req[q].pc = "wait_pre" /\ req[q].woken /\ req[q].branch = 3
        /\ req[w].pc = "wait_pre" /\ req[w].woken /\ req[w].branch = 1

\* Request q has got past the URL resolution of line 56.
Resolved(q) == req[q].pc # "idle" /\ merge(req[q].route) # "KeyError"

\* C21 as stated: at most one session is made, and it exists from the first
\* request() call on; an HTTP call is issued with the session; the session
\* is never made again.
C21_Original ==
    [][/\ session' <= 1
       /\ (\E q \in Reqs : req'[q].pc # "idle") => session' = 1
       /\ \A q \in Reqs : Issues(q) => session' = 1
       /\ session # 0 => session' = session]_vars

\* C21 amended: at most one session is made, by the first request() call
\* that gets past its URL resolution, in the step in which that call
\* starts; every call that got past its URL resolution, and every HTTP
\* call, has that session; the session is never made again.
C21_OneSession ==
    [][/\ session' <= 1
       /\ (\E q \in Reqs : Resolved(q)') => session' = 1
       /\ session' # session =>
             \E q \in Reqs : req[q].pc = "idle" /\ Resolved(q)'
                             /\ \A w \in Reqs : ~Resolved(w)
       /\ \A q \in Reqs : Issues(q) => session' = 1
       /\ session # 0 => session' = session]_vars

\* Two calls that started before any response have their HTTP calls in
\* flight with the one session.
C21_Witness ==
    /\ session = 1
    /\ \E q, w \in Reqs :
          /\ q # w
          /\ req[q].pc = "http" /\ req[q].calls = 1
          /\ req[w].pc = "http" /\ req[w].calls = 1
          /\ \A x \in Reqs \ {q, w} : req[x].pc = "idle"

====
